---- MODULE Spec2Model ----
(***************************************************************************)
(* Model of src/server.py: the Random.org MCP server.  Every generate_*    *)
(* tool validates its arguments, builds the JSON-RPC parameters, calls     *)
(* _random_org_rpc once and reshapes the result.  One action per tool; an  *)
(* action runs the whole tool body on arguments and an upstream response   *)
(* drawn from bounded sets, and leaves the invocation's record in the      *)
(* state.                                                                  *)
(***************************************************************************)
EXTENDS Integers, Sequences, FiniteSets, TLC

\* Longest list form (and largest n given in list form) that is enumerated.
MaxN == 2

(***************************************************************************)
(* Python values.  A bool is an int subclass: True == 1, False == 0, and   *)
(* only isinstance(x, bool) tells them apart, hence the tag t.             *)
(***************************************************************************)
IntV(i) == [t |-> "int", v |-> i]

BoolV(b) == [t |-> "bool", v |-> IF b THEN 1 ELSE 0]

PyTrue == BoolV(TRUE)

PyFalse == BoolV(FALSE)

\* A scalar-or-list argument (ScalarOrListInt / ScalarOrListBool).
Scalar(x) == [isList |-> FALSE, s |-> x, l |-> <<>>]

ListOf(xs) == [isList |-> TRUE, s |-> IntV(0), l |-> xs]

\* [val] * n
Repeat(x, n) == [i \in 1..n |-> x]

\* Strings are sequences of characters; a non-string value has isStr FALSE.
Str(cs) == [isStr |-> TRUE, chars |-> cs]

NotStr == [isStr |-> FALSE, chars |-> <<>>]

(***************************************************************************)
(* Errors.  type is the Python exception class, what tells the raise       *)
(* statements of one class apart, text is the friendly message built by    *)
(* the error mapper (empty for the other raises).                          *)
(***************************************************************************)
NoErr == [type |-> "", what |-> "", text |-> <<>>]

Raise(ty, w) == [type |-> ty, what |-> w, text |-> <<>>]

ValueError(w) == Raise("ValueError", w)

\* the first error of a list of checks run in order
RECURSIVE FirstErr(_)
FirstErr(es) ==
    IF es = <<>> THEN NoErr
    ELSE IF Head(es) # NoErr THEN Head(es)
    ELSE FirstErr(Tail(es))

(***************************************************************************)
(* _map_random_org_error.  The friendly message is the sequence of its     *)
(* parts joined by " "; a part records the text it interpolates.           *)
(***************************************************************************)
NoneCode == [t |-> "none", v |-> 0]

Part(k, c, m, x) == [k |-> k, code |-> c, msg |-> m, val |-> x]

\* the hints dict: key -> hint text
hints ==
    [c \in {400, 401, 402, 403, 413, 429, 503, -32600, -32601, -32602, -32603} |->
        CASE c = 400 -> "bad request parameters (400): check n/length/min/max/base"
          [] c = 401 -> "authentication failed (401): check RANDOM_ORG_API_KEY"
          [] c = 402 -> "quota exhausted (402): bitsLeft or requestsLeft used up"
          [] c = 403 -> "permission restricted (403)"
          [] c = 413 -> "request too large (413): reduce n or total length"
          [] c = 429 -> "too many requests (429): back off by advisoryDelay"
          [] c = 503 -> "service unavailable (503): retry later"
          [] c = -32600 -> "JSON-RPC invalid request (-32600)"
          [] c = -32601 -> "JSON-RPC unknown method (-32601)"
          [] c = -32602 -> "JSON-RPC invalid params (-32602)"
          [] c = -32603 -> "JSON-RPC internal error (-32603)"]

\* hints.get(code, ...) hashes its key: a code that is a JSON array or object
\* (a list or a dict) is unhashable and the lookup raises TypeError
hints_get_raises(code) == code.t \in {"list", "dict"}

\* hints.get(code, f"...{code}...{message}"): True == 1 and False == 0 hash
\* as ints, None and strings match no key.
base_msg(code, message) ==
    IF code.t \in {"int", "bool"} /\ code.v \in DOMAIN hints
    THEN Part("hint", NoneCode, hints[code.v], 0)
    ELSE Part("fallback", code, message, 0)

NoData == [isDict |-> FALSE, keys |-> {}, advisoryDelay |-> 0, bitsLeft |-> 0, requestsLeft |-> 0]

\* extra with the bitsLeft clause appended first
extra_bits_first(data) ==
    IF data.isDict /\ data.keys # {}
    THEN (IF "bitsLeft" \in data.keys
          THEN <<Part("bitsLeft", NoneCode, "", data.bitsLeft)>> ELSE <<>>)
         \o (IF "advisoryDelay" \in data.keys
             THEN <<Part("advisoryDelay", NoneCode, "", data.advisoryDelay)>> ELSE <<>>)
         \o (IF "requestsLeft" \in data.keys
             THEN <<Part("requestsLeft", NoneCode, "", data.requestsLeft)>> ELSE <<>>)
    ELSE <<>>

\* the clauses appended when data is a non-empty dict
extra(data) ==
    IF data.isDict /\ data.keys # {}
    THEN (IF "advisoryDelay" \in data.keys
          THEN <<Part("advisoryDelay", NoneCode, "", data.advisoryDelay)>> ELSE <<>>)
         \o (IF "bitsLeft" \in data.keys
             THEN <<Part("bitsLeft", NoneCode, "", data.bitsLeft)>> ELSE <<>>)
         \o (IF "requestsLeft" \in data.keys
             THEN <<Part("requestsLeft", NoneCode, "", data.requestsLeft)>> ELSE <<>>)
    ELSE <<>>

_map_random_org_error(code, message, data) ==
    <<base_msg(code, message)>> \o extra(data)

(***************************************************************************)
(* _validate_pregenerated_randomization.  A character of a date string is  *)
(* a digit "d", a dash "-" or anything else "x".                           *)
(***************************************************************************)
PgrNone == [kind |-> "none", hasDate |-> FALSE, hasId |-> FALSE, other |-> FALSE,
            date |-> NotStr, id |-> NotStr]

PgrDict(hd, hi, oth, d, i) ==
    [kind |-> "dict", hasDate |-> hd, hasId |-> hi, other |-> oth, date |-> d, id |-> i]

\* a value that is neither None nor a dict
PgrNotDict == [kind |-> "other", hasDate |-> FALSE, hasId |-> FALSE, other |-> FALSE,
               date |-> NotStr, id |-> NotStr]

\* r"\d{4}-\d{2}-\d{2}"
DatePattern == <<"d", "d", "d", "d", "-", "d", "d", "-", "d", "d">>

\* fullmatch as re.match would do it: a prefix of the string matches
fullmatch_prefix(pattern, cs) ==
    /\ Len(cs) >= Len(pattern)
    /\ \A i \in 1..Len(pattern) : cs[i] = pattern[i]

\* re.fullmatch(pattern, val): the whole string, item by item
fullmatch(pattern, cs) ==
    /\ Len(cs) = Len(pattern)
    /\ \A i \in 1..Len(pattern) : cs[i] = pattern[i]

\* returns [err, val]: the error raised, or the normalised spec
_validate_pregenerated_randomization(pgr) ==
    IF pgr.kind = "none" THEN [err |-> NoErr, val |-> PgrNone]
    ELSE IF pgr.kind # "dict" THEN [err |-> ValueError("pgr-not-object"), val |-> PgrNone]
    ELSE IF pgr.hasDate /\ pgr.hasId THEN [err |-> ValueError("pgr-both"), val |-> PgrNone]
    ELSE IF pgr.hasDate THEN
        IF ~pgr.date.isStr THEN [err |-> ValueError("pgr-date-type"), val |-> PgrNone]
        ELSE IF ~fullmatch(DatePattern, pgr.date.chars)
             THEN [err |-> ValueError("pgr-date-format"), val |-> PgrNone]
        ELSE [err |-> NoErr, val |-> PgrDict(TRUE, FALSE, FALSE, pgr.date, NotStr)]
    ELSE IF pgr.hasId THEN
        IF ~pgr.id.isStr THEN [err |-> ValueError("pgr-id-type"), val |-> PgrNone]
        ELSE IF ~(1 <= Len(pgr.id.chars) /\ Len(pgr.id.chars) <= 64)
             THEN [err |-> ValueError("pgr-id-length"), val |-> PgrNone]
        ELSE [err |-> NoErr, val |-> PgrDict(FALSE, TRUE, FALSE, NotStr, pgr.id)]
    ELSE [err |-> ValueError("pgr-neither"), val |-> PgrNone]

\* "pgr or None": an empty dict would be falsy
PgrOrNone(p) ==
    IF p.kind = "dict" /\ ~p.hasDate /\ ~p.hasId /\ ~p.other THEN PgrNone ELSE p

(***************************************************************************)
(* _random_org_rpc.  The upstream's behaviour is the argument resp:        *)
(*   kind "transport"  httpx.RequestError (timeout, connection failure)    *)
(*   kind "http"       raise_for_status() fails with the status code       *)
(*   kind "notjson"    resp.json() raises ValueError                       *)
(*   kind "jsonvalue"  a JSON value that is no object (array, number, null)*)
(*   kind "json"       a JSON object; errorKind tells whether it has an    *)
(*                     "error" member and of which sort, hasResult whether *)
(*                     it has a "result" member.                           *)
(***************************************************************************)
NoResult == [D |-> <<>>, bitsUsed |-> 0, bitsLeft |-> 0, requestsLeft |-> 0, advisoryDelay |-> 0]

NoErrObj == [hasCode |-> FALSE, code |-> NoneCode, hasMessage |-> FALSE, message |-> "",
             hasData |-> FALSE, data |-> NoData]

Resp(k, st, ek, eo, hr, res) ==
    [kind |-> k, status |-> st, errorKind |-> ek, error |-> eo, hasResult |-> hr, result |-> res]

NoResp == Resp("none", 0, "absent", NoErrObj, FALSE, NoResult)

RuntimeError(w, txt) == [type |-> "RuntimeError", what |-> w, text |-> txt]

\* _random_org_rpc posting a second time after a transport failure
_random_org_rpc_retry(api_key, resp) ==
    IF ~api_key
    THEN [err |-> RuntimeError("no-api-key", <<>>), net |-> 0, resp |-> NoResp, result |-> NoResult]
    ELSE IF resp.kind = "http"
    THEN [err |-> RuntimeError("http-status",
                     _map_random_org_error(IntV(resp.status), "HTTPStatusError", NoData)),
          net |-> 1, resp |-> resp, result |-> NoResult]
    ELSE IF resp.kind = "transport"
    THEN [err |-> RuntimeError("network", <<>>), net |-> 2, resp |-> resp, result |-> NoResult]
    ELSE IF resp.kind = "notjson"
    THEN [err |-> RuntimeError("parse", <<>>), net |-> 1, resp |-> resp, result |-> NoResult]
    ELSE IF resp.kind = "jsonvalue"
    THEN \* "error" in data, or data["result"], on a list, a number or None
         [err |-> Raise("TypeError", "body"), net |-> 1, resp |-> resp, result |-> NoResult]
    ELSE IF resp.errorKind = "nonobject"
    THEN \* a truthy "error" that is no dict: err.get fails
         [err |-> Raise("AttributeError", "error-get"), net |-> 1, resp |-> resp, result |-> NoResult]
    ELSE IF resp.errorKind = "object"
    THEN LET err == resp.error
             code == IF err.hasCode THEN err.code ELSE NoneCode
             msg == IF err.hasMessage THEN err.message ELSE ""
             err_data == IF err.hasData THEN err.data
                         ELSE [NoData EXCEPT !.isDict = TRUE]
         IN  [err |-> IF hints_get_raises(code) THEN Raise("TypeError", "unhashable")
                      ELSE RuntimeError("json-rpc-error",
                               _map_random_org_error(code, msg,
                                   IF err_data.isDict THEN err_data ELSE NoData)),
              net |-> 1, resp |-> resp, result |-> NoResult]
    ELSE IF ~resp.hasResult
    THEN [err |-> Raise("KeyError", "result"), net |-> 1, resp |-> resp, result |-> NoResult]
    ELSE [err |-> NoErr, net |-> 1, resp |-> resp, result |-> resp.result]

\* returns [err, net, resp, result]: the error raised, the number of POSTs made,
\* the response consumed and the value returned
_random_org_rpc(api_key, resp) ==
    IF ~api_key
    THEN [err |-> RuntimeError("no-api-key", <<>>), net |-> 0, resp |-> NoResp, result |-> NoResult]
    ELSE IF resp.kind = "http"
    THEN [err |-> RuntimeError("http-status",
                     _map_random_org_error(IntV(resp.status), "HTTPStatusError", NoData)),
          net |-> 1, resp |-> resp, result |-> NoResult]
    ELSE IF resp.kind = "transport"
    THEN [err |-> RuntimeError("network", <<>>), net |-> 1, resp |-> resp, result |-> NoResult]
    ELSE IF resp.kind = "notjson"
    THEN [err |-> RuntimeError("parse", <<>>), net |-> 1, resp |-> resp, result |-> NoResult]
    ELSE IF resp.kind = "jsonvalue"
    THEN \* "error" in data, or data["result"], on a list, a number or None
         [err |-> Raise("TypeError", "body"), net |-> 1, resp |-> resp, result |-> NoResult]
    ELSE IF resp.errorKind = "nonobject"
    THEN \* a truthy "error" that is no dict: err.get fails
         [err |-> Raise("AttributeError", "error-get"), net |-> 1, resp |-> resp, result |-> NoResult]
    ELSE IF resp.errorKind = "object"
    THEN LET err == resp.error
             code == IF err.hasCode THEN err.code ELSE NoneCode
             msg == IF err.hasMessage THEN err.message ELSE ""
             err_data == IF err.hasData THEN err.data
                         ELSE [NoData EXCEPT !.isDict = TRUE]
         IN  [err |-> IF hints_get_raises(code) THEN Raise("TypeError", "unhashable")
                      ELSE RuntimeError("json-rpc-error",
                               _map_random_org_error(code, msg,
                                   IF err_data.isDict THEN err_data ELSE NoData)),
              net |-> 1, resp |-> resp, result |-> NoResult]
    ELSE IF ~resp.hasResult
    THEN [err |-> Raise("KeyError", "result"), net |-> 1, resp |-> resp, result |-> NoResult]
    ELSE [err |-> NoErr, net |-> 1, resp |-> resp, result |-> resp.result]

(***************************************************************************)
(* Domain validators and the field normaliser.                             *)
(***************************************************************************)
_validate_int_range(val, name, lo, hi) ==
    IF ~(lo <= val /\ val <= hi) THEN ValueError(name \o "-range") ELSE NoErr

_validate_bool(val, name) ==
    IF val.t # "bool" THEN ValueError(name \o "-not-bool") ELSE NoErr

\* _validate_base as a range check instead of an enumeration
_validate_base_range(val, name) ==
    IF val.v < 2 \/ val.v > 16 THEN ValueError(name \o "-base") ELSE NoErr

_validate_base(val, name) ==
    IF val.v \notin {2, 8, 10, 16} THEN ValueError(name \o "-base") ELSE NoErr

RECURSIVE sum(_)
sum(xs) ==
    IF Len(xs) = 0 THEN 0
    ELSE IF Len(xs) = 1 THEN xs[1].v
    ELSE LET h == Len(xs) \div 2
         IN  sum(SubSeq(xs, 1, h)) + sum(SubSeq(xs, h + 1, Len(xs)))

\* _validate_lengths_total with the upper bound excluded
_validate_lengths_total_exclusive(lengths) ==
    LET total == sum(lengths)
    IN  IF ~(1 <= total /\ total < 10000) THEN ValueError("lengths-total") ELSE NoErr

_validate_lengths_total(lengths) ==
    LET total == sum(lengths)
    IN  IF ~(1 <= total /\ total <= 10000) THEN ValueError("lengths-total") ELSE NoErr

\* the smallest member of a non-empty set of integers
Least(S) == CHOOSE i \in S : \A j \in S : i <= j

\* the error of the first iteration of a for loop that raises; body[i] is
\* the error of iteration i (1-based here)
FirstRaise(body) ==
    LET bad == {i \in DOMAIN body : body[i] # NoErr}
    IN  IF bad = {} THEN NoErr ELSE body[Least(bad)]

\* the validators handed to _ensure_scalar_or_list
IntRangeValidator(lo, hi) == [kind |-> "int_range", lo |-> lo, hi |-> hi]

BoolValidator == [kind |-> "bool", lo |-> 0, hi |-> 0]

BaseValidator == [kind |-> "base", lo |-> 0, hi |-> 0]

\* validator(v, nm)
Validate(validator, v, nm) ==
    CASE validator.kind = "int_range" -> _validate_int_range(v.v, nm, validator.lo, validator.hi)
      [] validator.kind = "bool" -> _validate_bool(v, nm)
      [] validator.kind = "base" -> _validate_base(v, nm)

\* returns [err, is_scalar, value]
\* _ensure_scalar_or_list that does not validate the scalar form
_ensure_scalar_or_list_unchecked(name, value, n, scalar_validator, list_item_validator) ==
    IF value.isList
    THEN IF Len(value.l) # n
         THEN [err |-> ValueError(name \o "-list-length"), is_scalar |-> FALSE, value |-> value]
         ELSE [err |-> FirstRaise([i \in 1..Len(value.l) |->
                          Validate(list_item_validator, value.l[i], name \o "[i]")]),
               is_scalar |-> FALSE, value |-> value]
    ELSE [err |-> NoErr, is_scalar |-> TRUE, value |-> value]

_ensure_scalar_or_list(name, value, n, scalar_validator, list_item_validator) ==
    IF value.isList
    THEN IF Len(value.l) # n
         THEN [err |-> ValueError(name \o "-list-length"), is_scalar |-> FALSE, value |-> value]
         ELSE [err |-> FirstRaise([i \in 1..Len(value.l) |->
                          Validate(list_item_validator, value.l[i], name \o "[i]")]),
               is_scalar |-> FALSE, value |-> value]
    ELSE [err |-> Validate(scalar_validator, value.s, name), is_scalar |-> TRUE, value |-> value]

(***************************************************************************)
(* _validate_no_replacement_feasible.  Python objects are untyped: X[i]    *)
(* on an int, len() of a bool and int - list raise TypeError.              *)
(***************************************************************************)
TypeError(w) == Raise("TypeError", w)

\* X[i] where X is [f] * n in the uniform branch and f itself otherwise
Subscript(f, is_uniform, i) ==
    IF is_uniform THEN [ok |-> TRUE, obj |-> f]
    ELSE IF f.isList /\ i \in 1..Len(f.l) THEN [ok |-> TRUE, obj |-> Scalar(f.l[i])]
    ELSE [ok |-> FALSE, obj |-> f]

\* domain = MAX[i] - MIN[i] + 1; if domain < L[i]: raise
FeasibleAt(is_uniform, length, min_value, max_value, i) ==
    LET mx == Subscript(max_value, is_uniform, i)
        mn == Subscript(min_value, is_uniform, i)
        ln == Subscript(length, is_uniform, i)
    IN  IF ~mx.ok \/ ~mn.ok THEN TypeError("subscript")
        ELSE IF mx.obj.isList \/ mn.obj.isList THEN TypeError("operand")
        ELSE IF ~ln.ok THEN TypeError("subscript")
        ELSE IF ln.obj.isList THEN TypeError("operand")
        ELSE IF mx.obj.s.v - mn.obj.s.v + 1 < ln.obj.s.v THEN ValueError("infeasible")
        ELSE NoErr

_validate_no_replacement_feasible(is_uniform, length, min_value, max_value, replacement, n) ==
    IF ~is_uniform /\ ~replacement.isList /\ replacement.s.t = "bool"
    THEN \* isinstance(R, bool)
         IF replacement.s = PyTrue THEN NoErr
         ELSE FirstRaise([i \in 1..n |->
                  FeasibleAt(is_uniform, length, min_value, max_value, i)])
    ELSE IF ~is_uniform /\ ~replacement.isList THEN TypeError("len")
    ELSE IF ~is_uniform /\ Len(replacement.l) # n THEN ValueError("replacement-list-length")
    ELSE FirstRaise([i \in 1..n |->
            LET r == Subscript(replacement, is_uniform, i)
            IN  \* R[i] is False
                IF ~r.obj.isList /\ r.obj.s = PyFalse
                THEN FeasibleAt(is_uniform, length, min_value, max_value, i)
                ELSE NoErr])

(***************************************************************************)
(* The tools.  a is the argument record (a tool reads only its own         *)
(* parameters), api_key tells whether RANDOM_ORG_API_KEY is set, resp is   *)
(* what the upstream does if it is called.  The value is the record of the *)
(* invocation: the error raised (NoErr on return), whether _random_org_rpc *)
(* was entered, how many POSTs were made, the params sent, the response    *)
(* consumed and the dict returned.                                         *)
(***************************************************************************)
DefaultArgs ==
    [n |-> 1, length |-> Scalar(IntV(1)), min |-> Scalar(IntV(0)), max |-> Scalar(IntV(4)),
     replacement |-> Scalar(PyTrue), base |-> Scalar(IntV(10)), decimalPlaces |-> 1,
     mean |-> 0, standardDeviation |-> 1, significantDigits |-> 2,
     characters |-> Str(<<"a">>), size |-> 8, format |-> "base64", pgr |-> PgrNone]

NoOut == [payloadKey |-> "", payload |-> <<>>, keys |-> {}, echo |-> DefaultArgs,
          bitsUsed |-> 0, bitsLeft |-> 0, requestsLeft |-> 0, advisoryDelay |-> 0]

NoParams == [method |-> "", keys |-> {}, val |-> DefaultArgs]

\* a raise before _random_org_rpc is reached
Fail(e) ==
    [err |-> e, rpcCalled |-> FALSE, netCalls |-> 0, params |-> NoParams,
     resp |-> NoResp, out |-> NoOut]

\* params = {...}; if pgr is not None: params["pregeneratedRandomization"] = pgr
Params(method, keys, val, pgr) ==
    [method |-> method,
     keys |-> keys \cup (IF pgr.kind # "none" THEN {"pregeneratedRandomization"} ELSE {}),
     val |-> [val EXCEPT !.pgr = pgr]]

\* CallAndReshape with bitsUsed read from the bitsLeft member
CallAndReshape_bits(api_key, resp, params, payloadKey, echoKeys, echo, pgr) ==
    LET r == _random_org_rpc(api_key, resp)
    IN  IF r.err # NoErr
        THEN [err |-> r.err, rpcCalled |-> TRUE, netCalls |-> r.net, params |-> params,
              resp |-> r.resp, out |-> NoOut]
        ELSE [err |-> NoErr, rpcCalled |-> TRUE, netCalls |-> r.net, params |-> params,
              resp |-> r.resp,
              out |-> [payloadKey |-> payloadKey, payload |-> r.result.D,
                       keys |-> echoKeys \cup {"pregeneratedRandomization"},
                       echo |-> [echo EXCEPT !.pgr = PgrOrNone(pgr)],
                       bitsUsed |-> r.result.bitsLeft, bitsLeft |-> r.result.bitsLeft,
                       requestsLeft |-> r.result.requestsLeft,
                       advisoryDelay |-> r.result.advisoryDelay]]

\* result = _random_org_rpc(method, params); return {payloadKey: data, echoes, quota}
CallAndReshape(api_key, resp, params, payloadKey, echoKeys, echo, pgr) ==
    LET r == _random_org_rpc(api_key, resp)
    IN  IF r.err # NoErr
        THEN [err |-> r.err, rpcCalled |-> TRUE, netCalls |-> r.net, params |-> params,
              resp |-> r.resp, out |-> NoOut]
        ELSE [err |-> NoErr, rpcCalled |-> TRUE, netCalls |-> r.net, params |-> params,
              resp |-> r.resp,
              out |-> [payloadKey |-> payloadKey, payload |-> r.result.D,
                       keys |-> echoKeys \cup {"pregeneratedRandomization"},
                       echo |-> [echo EXCEPT !.pgr = PgrOrNone(pgr)],
                       bitsUsed |-> r.result.bitsUsed, bitsLeft |-> r.result.bitsLeft,
                       requestsLeft |-> r.result.requestsLeft,
                       advisoryDelay |-> r.result.advisoryDelay]]

generate_integers(a, api_key, resp) ==
    LET n == a.n
        min_value == a.min.s.v
        max_value == a.max.s.v
        base == a.base.s.v
        pg == _validate_pregenerated_randomization(a.pgr)
        e == FirstErr(<<
                IF ~(1 <= n /\ n <= 10000) THEN ValueError("n-range") ELSE NoErr,
                IF ~(-1000000000 <= min_value /\ min_value <= 1000000000)
                    THEN ValueError("min-range") ELSE NoErr,
                IF ~(-1000000000 <= max_value /\ max_value <= 1000000000)
                    THEN ValueError("max-range") ELSE NoErr,
                IF min_value > max_value THEN ValueError("min-gt-max") ELSE NoErr,
                IF base \notin {2, 8, 10, 16} THEN ValueError("base-base") ELSE NoErr,
                pg.err >>)
    IN  IF e # NoErr THEN Fail(e)
        ELSE CallAndReshape(api_key, resp,
                Params("generateIntegers", {"n", "min", "max", "replacement", "base"},
                       [DefaultArgs EXCEPT !.n = a.n, !.min = a.min, !.max = a.max,
                                           !.replacement = a.replacement, !.base = a.base],
                       pg.val),
                "values", {"base", "replacement"},
                [DefaultArgs EXCEPT !.base = a.base, !.replacement = a.replacement], pg.val)

\* _as_list(val, is_scalar)
_as_list(f, n) == IF f.isList THEN f.l ELSE Repeat(f.s, n)

generate_integer_sequences(a, api_key, resp) ==
    LET n == a.n
        e_n == _validate_int_range(n, "n", 1, 1000)
        len == _ensure_scalar_or_list("length", a.length, n,
                   IntRangeValidator(1, 10000),
                   IntRangeValidator(1, 10000))
        e_total == IF len.is_scalar
                   THEN (IF ~(1 <= n * len.value.s.v /\ n * len.value.s.v <= 10000)
                         THEN ValueError("lengths-total") ELSE NoErr)
                   ELSE _validate_lengths_total(len.value.l)
        mn == _ensure_scalar_or_list("min", a.min, n,
                   IntRangeValidator(-1000000000, 1000000000),
                   IntRangeValidator(-1000000000, 1000000000))
        mx == _ensure_scalar_or_list("max", a.max, n,
                   IntRangeValidator(-1000000000, 1000000000),
                   IntRangeValidator(-1000000000, 1000000000))
        min_list == _as_list(mn.value, n)
        max_list == _as_list(mx.value, n)
        e_order == FirstRaise([i \in 1..n |->
                       IF min_list[i].v > max_list[i].v THEN ValueError("min-gt-max") ELSE NoErr])
        rep == _ensure_scalar_or_list("replacement", a.replacement, n,
                   BoolValidator, BoolValidator)
        bs == _ensure_scalar_or_list("base", a.base, n, BaseValidator, BaseValidator)
        pg == _validate_pregenerated_randomization(a.pgr)
        e_feasible == _validate_no_replacement_feasible(
                          len.is_scalar, len.value, mn.value, mx.value, rep.value, n)
    IN  IF e_n # NoErr THEN Fail(e_n)
        ELSE IF len.err # NoErr THEN Fail(len.err)
        ELSE IF e_total # NoErr THEN Fail(e_total)
        ELSE IF mn.err # NoErr THEN Fail(mn.err)
        ELSE IF mx.err # NoErr THEN Fail(mx.err)
        ELSE IF e_order # NoErr THEN Fail(e_order)
        ELSE IF rep.err # NoErr THEN Fail(rep.err)
        ELSE IF bs.err # NoErr THEN Fail(bs.err)
        ELSE IF pg.err # NoErr THEN Fail(pg.err)
        ELSE IF e_feasible # NoErr THEN Fail(e_feasible)
        ELSE CallAndReshape(api_key, resp,
                Params("generateIntegerSequences",
                       {"n", "length", "min", "max", "replacement", "base"},
                       [DefaultArgs EXCEPT !.n = n, !.length = len.value, !.min = mn.value,
                                           !.max = mx.value, !.replacement = rep.value,
                                           !.base = bs.value],
                       pg.val),
                "sequences", {"base", "replacement"},
                [DefaultArgs EXCEPT !.base = bs.value, !.replacement = rep.value], pg.val)

generate_decimal_fractions(a, api_key, resp) ==
    LET pg == _validate_pregenerated_randomization(a.pgr)
        e == FirstErr(<<
                _validate_int_range(a.n, "n", 1, 10000),
                _validate_int_range(a.decimalPlaces, "decimalPlaces", 1, 14),
                _validate_bool(a.replacement.s, "replacement"),
                pg.err >>)
    IN  IF e # NoErr THEN Fail(e)
        ELSE CallAndReshape(api_key, resp,
                Params("generateDecimalFractions", {"n", "decimalPlaces", "replacement"},
                       [DefaultArgs EXCEPT !.n = a.n, !.decimalPlaces = a.decimalPlaces,
                                           !.replacement = a.replacement],
                       pg.val),
                "fractions", {"decimalPlaces", "replacement"},
                [DefaultArgs EXCEPT !.decimalPlaces = a.decimalPlaces,
                                    !.replacement = a.replacement], pg.val)

generate_gaussians(a, api_key, resp) ==
    LET pg == _validate_pregenerated_randomization(a.pgr)
        e == FirstErr(<<
                _validate_int_range(a.n, "n", 1, 10000),
                IF ~(-1000000 <= a.mean /\ a.mean <= 1000000)
                    THEN ValueError("mean-range") ELSE NoErr,
                IF ~(-1000000 <= a.standardDeviation /\ a.standardDeviation <= 1000000)
                    THEN ValueError("standardDeviation-range") ELSE NoErr,
                _validate_int_range(a.significantDigits, "significantDigits", 2, 14),
                pg.err >>)
    IN  IF e # NoErr THEN Fail(e)
        ELSE CallAndReshape(api_key, resp,
                Params("generateGaussians",
                       {"n", "mean", "standardDeviation", "significantDigits"},
                       [DefaultArgs EXCEPT !.n = a.n, !.mean = a.mean,
                                           !.standardDeviation = a.standardDeviation,
                                           !.significantDigits = a.significantDigits],
                       pg.val),
                "values", {"mean", "standardDeviation", "significantDigits"},
                [DefaultArgs EXCEPT !.mean = a.mean,
                                    !.standardDeviation = a.standardDeviation,
                                    !.significantDigits = a.significantDigits], pg.val)

generate_strings(a, api_key, resp) ==
    LET pg == _validate_pregenerated_randomization(a.pgr)
        e == FirstErr(<<
                _validate_int_range(a.n, "n", 1, 10000),
                _validate_int_range(a.length.s.v, "length", 1, 32),
                IF ~a.characters.isStr THEN TypeError("characters-not-str") ELSE NoErr,
                IF ~(1 <= Len(a.characters.chars) /\ Len(a.characters.chars) <= 128)
                    THEN ValueError("characters-length") ELSE NoErr,
                _validate_bool(a.replacement.s, "replacement"),
                pg.err >>)
    IN  IF e # NoErr THEN Fail(e)
        ELSE CallAndReshape(api_key, resp,
                Params("generateStrings", {"n", "length", "characters", "replacement"},
                       [DefaultArgs EXCEPT !.n = a.n, !.length = a.length,
                                           !.characters = a.characters,
                                           !.replacement = a.replacement],
                       pg.val),
                "strings", {"length", "characters", "replacement"},
                [DefaultArgs EXCEPT !.length = a.length, !.characters = a.characters,
                                    !.replacement = a.replacement], pg.val)

\* generate_uuids with the randomization spec validated after the call
generate_uuids_call_first(a, api_key, resp) ==
    LET pg == _validate_pregenerated_randomization(a.pgr)
        e == _validate_int_range(a.n, "n", 1, 1000)
        o == CallAndReshape(api_key, resp,
                Params("generateUUIDs", {"n"}, [DefaultArgs EXCEPT !.n = a.n], PgrNone),
                "uuids", {}, DefaultArgs, pg.val)
    IN  IF e # NoErr THEN Fail(e)
        ELSE IF o.err = NoErr /\ pg.err # NoErr THEN [o EXCEPT !.err = pg.err, !.out = NoOut]
        ELSE o

generate_uuids(a, api_key, resp) ==
    LET pg == _validate_pregenerated_randomization(a.pgr)
        e == FirstErr(<< _validate_int_range(a.n, "n", 1, 1000), pg.err >>)
    IN  IF e # NoErr THEN Fail(e)
        ELSE CallAndReshape(api_key, resp,
                Params("generateUUIDs", {"n"}, [DefaultArgs EXCEPT !.n = a.n], pg.val),
                "uuids", {}, DefaultArgs, pg.val)

\* generate_blobs without the n*size cap
generate_blobs_no_total(a, api_key, resp) ==
    LET pg == _validate_pregenerated_randomization(a.pgr)
        e == FirstErr(<<
                _validate_int_range(a.n, "n", 1, 100),
                _validate_int_range(a.size, "size", 1, 1048576),
                IF a.size % 8 # 0 THEN ValueError("size-mod-8") ELSE NoErr,
                IF a.format \notin {"base64", "hex"} THEN ValueError("format") ELSE NoErr,
                pg.err >>)
    IN  IF e # NoErr THEN Fail(e)
        ELSE CallAndReshape(api_key, resp,
                Params("generateBlobs", {"n", "size", "format"},
                       [DefaultArgs EXCEPT !.n = a.n, !.size = a.size, !.format = a.format],
                       pg.val),
                "blobs", {"size", "format"},
                [DefaultArgs EXCEPT !.size = a.size, !.format = a.format], pg.val)

generate_blobs(a, api_key, resp) ==
    LET pg == _validate_pregenerated_randomization(a.pgr)
        e == FirstErr(<<
                _validate_int_range(a.n, "n", 1, 100),
                _validate_int_range(a.size, "size", 1, 1048576),
                IF a.size % 8 # 0 THEN ValueError("size-mod-8") ELSE NoErr,
                IF a.n * a.size > 1048576 THEN ValueError("total-size") ELSE NoErr,
                IF a.format \notin {"base64", "hex"} THEN ValueError("format") ELSE NoErr,
                pg.err >>)
    IN  IF e # NoErr THEN Fail(e)
        ELSE CallAndReshape(api_key, resp,
                Params("generateBlobs", {"n", "size", "format"},
                       [DefaultArgs EXCEPT !.n = a.n, !.size = a.size, !.format = a.format],
                       pg.val),
                "blobs", {"size", "format"},
                [DefaultArgs EXCEPT !.size = a.size, !.format = a.format], pg.val)

\* get_usage: no parameters, the result mapping is returned as it is
get_usage(a, api_key, resp) ==
    LET r == _random_org_rpc(api_key, resp)
    IN  [err |-> r.err, rpcCalled |-> TRUE, netCalls |-> r.net,
         params |-> [method |-> "getUsage", keys |-> {}, val |-> DefaultArgs],
         resp |-> r.resp,
         out |-> IF r.err # NoErr THEN NoOut
                 ELSE [NoOut EXCEPT !.payloadKey = "result", !.payload = r.result.D,
                                    !.bitsUsed = r.result.bitsUsed,
                                    !.bitsLeft = r.result.bitsLeft,
                                    !.requestsLeft = r.result.requestsLeft,
                                    !.advisoryDelay = r.result.advisoryDelay]]

(***************************************************************************)
(* Inputs.  Boundary values of every checked field, every scalar/list      *)
(* combination of the multiform fields for n up to MaxN, and the upstream  *)
(* behaviours.                                                             *)
(***************************************************************************)
\* scalar and length-k list forms over a set of values
Forms(V, k) == {Scalar(x) : x \in V} \cup {ListOf(xs) : xs \in [1..k -> V]}

Ints(S) == {IntV(i) : i \in S}

Xs(k) == Repeat("x", k)

GoodDate == Str(DatePattern)

\* the good date with one character replaced, dropped or added
Dates ==
    {GoodDate}
    \cup {Str([DatePattern EXCEPT ![i] = c]) : i \in 1..Len(DatePattern), c \in {"d", "-", "x"}}
    \cup {Str(SubSeq(DatePattern, 1, Len(DatePattern) - 1)), Str(Tail(DatePattern)),
          Str(DatePattern \o <<"d">>), Str(DatePattern \o <<"x">>), Str(<<>>), NotStr}

Ids == {Str(Xs(k)) : k \in {0, 1, 2, 63, 64, 65}} \cup {NotStr}

Pgrs ==
    {PgrNone, PgrNotDict}
    \cup {PgrDict(FALSE, FALSE, oth, NotStr, NotStr) : oth \in BOOLEAN}
    \cup {PgrDict(TRUE, FALSE, oth, d, NotStr) : oth \in BOOLEAN, d \in Dates}
    \cup {PgrDict(FALSE, TRUE, oth, NotStr, i) : oth \in BOOLEAN, i \in Ids}
    \cup {PgrDict(TRUE, TRUE, FALSE, d, i) : d \in {GoodDate, NotStr}, i \in {Str(Xs(1)), Str(Xs(65))}}

Results ==
    {[D |-> d, bitsUsed |-> q[1], bitsLeft |-> q[2], requestsLeft |-> q[3], advisoryDelay |-> q[4]] :
        d \in {<<1, 2, 3, 4, 5>>, <<>>, <<7>>}, q \in {<<15, 985, 9999, 0>>, <<0, 1, 2, 1500>>}}

\* numbers, True, a missing code, the string "400" and the array [400]
Codes ==
    Ints(DOMAIN hints) \cup Ints({-1, 0, 1, 200, 404}) \cup {PyTrue, NoneCode}
    \cup {[t |-> "str", v |-> 400], [t |-> "list", v |-> 400]}

Datas ==
    {NoData}
    \cup {[isDict |-> TRUE, keys |-> ks, advisoryDelay |-> v[1], bitsLeft |-> v[2],
           requestsLeft |-> v[3]] :
            ks \in SUBSET {"advisoryDelay", "bitsLeft", "requestsLeft"},
            v \in {<<1500, 7, 3>>, <<0, 0, 0>>}}

ErrObjs ==
    {[hasCode |-> c # NoneCode, code |-> c, hasMessage |-> TRUE, message |-> m,
      hasData |-> TRUE, data |-> d] : c \in Codes, m \in {"", "boom"}, d \in Datas}
    \cup {[NoErrObj EXCEPT !.hasCode = TRUE, !.code = c] : c \in Codes}

OkResp == Resp("json", 200, "absent", NoErrObj, TRUE,
               [D |-> <<1, 2, 3, 4, 5>>, bitsUsed |-> 15, bitsLeft |-> 985,
                requestsLeft |-> 9999, advisoryDelay |-> 0])

TransportResp == Resp("transport", 0, "absent", NoErrObj, FALSE, NoResult)

Resps ==
    {TransportResp, Resp("notjson", 200, "absent", NoErrObj, FALSE, NoResult)}
    \cup {Resp("http", st, "absent", NoErrObj, FALSE, NoResult) :
            st \in {400, 401, 402, 403, 404, 413, 429, 500, 503}}
    \cup {Resp("json", 200, ek, NoErrObj, TRUE, r) : ek \in {"absent", "falsy"}, r \in Results}
    \cup {Resp("json", 200, "absent", NoErrObj, FALSE, NoResult),
          Resp("json", 200, "nonobject", NoErrObj, FALSE, NoResult),
          Resp("jsonvalue", 200, "absent", NoErrObj, FALSE, NoResult)}
    \cup {Resp("json", 200, "object", eo, hr, NoResult) : eo \in ErrObjs, hr \in BOOLEAN}

\* every argument record with the two upstream outcomes, and a valid one with all
WithResps(A, valid) == (A \X {OkResp, TransportResp}) \cup (valid \X Resps)

PgrArgs(valid) == {[valid EXCEPT !.pgr = p] : p \in Pgrs}

Bools == {PyTrue, PyFalse, IntV(0), IntV(1)}

ValidIntegers == [DefaultArgs EXCEPT !.n = 5, !.min = Scalar(IntV(1)), !.max = Scalar(IntV(6))]

IntegersArgs ==
    {[ValidIntegers EXCEPT !.n = n, !.min = Scalar(IntV(lo)), !.max = Scalar(IntV(hi))] :
        n \in {0, 1, 5, 10000, 10001},
        lo \in {-1000000001, -1000000000, 1, 6, 7, 1000000000, 1000000001},
        hi \in {-1000000001, -1000000000, 1, 6, 1000000000, 1000000001}}
    \cup {[ValidIntegers EXCEPT !.replacement = Scalar(r), !.base = Scalar(IntV(b))] :
            r \in Bools, b \in {0, 1, 2, 3, 8, 9, 10, 16, 17}}
    \cup PgrArgs(ValidIntegers)

ValidSequences ==
    [DefaultArgs EXCEPT !.n = MaxN, !.length = Scalar(IntV(5)), !.replacement = Scalar(PyFalse)]

\* every combination of forms around the feasibility boundary, n = k
FormArgs(k) ==
    {[DefaultArgs EXCEPT !.n = k, !.length = l, !.min = lo, !.max = hi,
                         !.replacement = r, !.base = b] :
        l \in Forms(Ints({5, 6}), k), lo \in Forms(Ints({0, 1}), k),
        hi \in Forms(Ints({4, 5}), k), r \in Forms({PyTrue, PyFalse}, k),
        b \in Forms(Ints({10}), k)}

\* one field given as a list whose length is not n
ShapeArgs ==
    UNION {{[ValidSequences EXCEPT !.n = n, !.length = ListOf(Repeat(IntV(5), k))],
            [ValidSequences EXCEPT !.n = n, !.min = ListOf(Repeat(IntV(0), k))],
            [ValidSequences EXCEPT !.n = n, !.max = ListOf(Repeat(IntV(4), k))],
            [ValidSequences EXCEPT !.n = n, !.replacement = ListOf(Repeat(PyFalse, k))],
            [ValidSequences EXCEPT !.n = n, !.base = ListOf(Repeat(IntV(10), k))]} :
           n \in 1..MaxN, k \in 0..(MaxN + 1)}

\* the bounds of n and of the lengths and their sum
LengthArgs ==
    {[DefaultArgs EXCEPT !.n = n, !.length = Scalar(IntV(l)), !.max = Scalar(IntV(1000000000))] :
        n \in {0, 1, 2, 10, 1000, 1001}, l \in {0, 1, 10, 11, 1000, 1001, 5000, 6000, 10000, 10001}}
    \cup UNION {{[DefaultArgs EXCEPT !.n = k, !.length = ListOf(ls),
                                     !.max = Scalar(IntV(1000000000))] :
                    ls \in [1..k -> Ints({0, 1, 4000, 5000, 6000, 10000, 10001})]} : k \in 1..MaxN}

\* the bounds of min and max, and their order
RangeArgs ==
    UNION {{[DefaultArgs EXCEPT !.n = k, !.min = lo, !.max = hi] :
              lo \in Forms(Ints({-1000000001, -1000000000, 5}), k),
              hi \in Forms(Ints({4, 1000000000, 1000000001}), k)} : k \in 1..MaxN}

\* replacement and base values of every sort, in both forms
FlagArgs ==
    UNION {{[DefaultArgs EXCEPT !.n = k, !.replacement = r] : r \in Forms(Bools, k)}
           \cup {[DefaultArgs EXCEPT !.n = k, !.base = b] :
                    b \in Forms(Ints({1, 2, 3, 8, 10, 16, 17}), k)} : k \in 1..MaxN}

SequencesArgs ==
    UNION {FormArgs(k) : k \in 1..MaxN} \cup ShapeArgs \cup LengthArgs \cup RangeArgs
    \cup FlagArgs \cup PgrArgs(ValidSequences)

FractionsArgs ==
    {[DefaultArgs EXCEPT !.n = n, !.decimalPlaces = d, !.replacement = Scalar(r)] :
        n \in {0, 1, 10000, 10001}, d \in {0, 1, 14, 15}, r \in Bools}
    \cup PgrArgs(DefaultArgs)

ValidGaussians == [DefaultArgs EXCEPT !.mean = 1000000, !.standardDeviation = -1000000]

GaussiansArgs ==
    {[DefaultArgs EXCEPT !.n = n, !.mean = m, !.standardDeviation = sd,
                         !.significantDigits = g] :
        n \in {0, 1, 10000, 10001}, m \in {-1000001, -1000000, 0, 1000000, 1000001},
        sd \in {-1000001, -1000000, 0, 1000000, 1000001}, g \in {1, 2, 14, 15}}
    \cup PgrArgs(ValidGaussians)

StringsArgs ==
    {[DefaultArgs EXCEPT !.n = n, !.length = Scalar(IntV(l)), !.characters = c,
                         !.replacement = Scalar(r)] :
        n \in {0, 1, 10000, 10001}, l \in {0, 1, 32, 33},
        c \in {Str(Xs(k)) : k \in {0, 1, 128, 129}} \cup {NotStr}, r \in Bools}
    \cup PgrArgs(DefaultArgs)

UuidsArgs ==
    {[DefaultArgs EXCEPT !.n = n, !.pgr = p] : n \in {0, 1, 1000, 1001}, p \in Pgrs}

ValidBlobs == [DefaultArgs EXCEPT !.n = 2, !.size = 524288, !.format = "hex"]

BlobsArgs ==
    {[DefaultArgs EXCEPT !.n = n, !.size = sz, !.format = f] :
        n \in {0, 1, 2, 3, 100, 101},
        sz \in {-8, 0, 1, 7, 8, 9, 16, 10480, 10488, 349520, 349528, 524288, 524296,
                1048575, 1048576, 1048577, 1048584},
        f \in {"base64", "hex", "raw", ""}}
    \cup PgrArgs(ValidBlobs)

(***************************************************************************)
(* State: the record of the tool invocation in progress (op = "none"      *)
(* between invocations).  The process keeps no other state than the       *)
(* environment's API key; the server handles one tool call at a time.     *)
(***************************************************************************)
VARIABLES op, args, api_key, err, rpcCalled, netCalls, params, resp, out,
          clock,    \* time.time(), in ticks of 1/TicksPerMs millisecond
          reqId,    \* the "id" of the envelope built by the invocation, -1 if none
          ids       \* history: the ids of the envelopes built so far in the session

vars == <<op, args, api_key, err, rpcCalled, netCalls, params, resp, out, clock, reqId, ids>>

\* resolution of the clock: ticks per millisecond
TicksPerMs == 2

\* the last tick of the clock that is explored
MaxClock == 3

\* the longest session that is explored, in envelopes built
MaxCalls == 3

\* "id": int(time.time() * 1000)
payload_id(now) == now \div TicksPerMs

Init ==
    /\ op = "none"
    /\ args = DefaultArgs
    /\ api_key \in BOOLEAN
    /\ err = NoErr
    /\ rpcCalled = FALSE
    /\ netCalls = 0
    /\ params = NoParams
    /\ resp = NoResp
    /\ out = NoOut
    /\ clock = 0
    /\ reqId = -1
    /\ ids = <<>>

\* one invocation of tool name on arguments a with record o
Invoke(name, a, o) ==
    /\ op' = name
    /\ args' = a
    /\ err' = o.err
    /\ rpcCalled' = o.rpcCalled
    /\ netCalls' = o.netCalls
    /\ params' = o.params
    /\ resp' = o.resp
    /\ out' = o.out
    \* the payload is built once the API key has been found
    /\ reqId' = IF o.rpcCalled /\ api_key THEN payload_id(clock) ELSE -1
    /\ UNCHANGED <<api_key, clock>>

GenerateIntegers ==
    /\ op = "none"
    /\ UNCHANGED ids
    /\ \E x \in WithResps(IntegersArgs, {ValidIntegers}) :
           Invoke("generate_integers", x[1], generate_integers(x[1], api_key, x[2]))

GenerateIntegerSequences ==
    /\ op = "none"
    /\ UNCHANGED ids
    /\ \E x \in WithResps(SequencesArgs, {ValidSequences}) :
           Invoke("generate_integer_sequences", x[1],
                  generate_integer_sequences(x[1], api_key, x[2]))

GenerateDecimalFractions ==
    /\ op = "none"
    /\ UNCHANGED ids
    /\ \E x \in WithResps(FractionsArgs, {DefaultArgs}) :
           Invoke("generate_decimal_fractions", x[1],
                  generate_decimal_fractions(x[1], api_key, x[2]))

GenerateGaussians ==
    /\ op = "none"
    /\ UNCHANGED ids
    /\ \E x \in WithResps(GaussiansArgs, {ValidGaussians}) :
           Invoke("generate_gaussians", x[1], generate_gaussians(x[1], api_key, x[2]))

GenerateStrings ==
    /\ op = "none"
    /\ UNCHANGED ids
    /\ \E x \in WithResps(StringsArgs, {DefaultArgs}) :
           Invoke("generate_strings", x[1], generate_strings(x[1], api_key, x[2]))

GenerateUuids ==
    /\ op = "none"
    /\ UNCHANGED ids
    /\ \E x \in WithResps(UuidsArgs, {DefaultArgs}) :
           Invoke("generate_uuids", x[1], generate_uuids(x[1], api_key, x[2]))

GenerateBlobs ==
    /\ op = "none"
    /\ UNCHANGED ids
    /\ \E x \in WithResps(BlobsArgs, {ValidBlobs}) :
           Invoke("generate_blobs", x[1], generate_blobs(x[1], api_key, x[2]))

\* the result or the exception has been handed to the dispatcher
Return ==
    /\ op # "none"
    /\ op' = "none"
    /\ args' = DefaultArgs
    /\ err' = NoErr
    /\ rpcCalled' = FALSE
    /\ netCalls' = 0
    /\ params' = NoParams
    /\ resp' = NoResp
    /\ out' = NoOut
    /\ reqId' = -1
    /\ UNCHANGED <<api_key, clock, ids>>

GetUsage ==
    /\ op = "none"
    /\ UNCHANGED ids
    /\ \E x \in {DefaultArgs} \X Resps :
           Invoke("get_usage", x[1], get_usage(x[1], api_key, x[2]))

Next ==
    \/ GenerateIntegers
    \/ GenerateIntegerSequences
    \/ GenerateDecimalFractions
    \/ GenerateGaussians
    \/ GenerateStrings
    \/ GenerateUuids
    \/ GenerateBlobs
    \/ GetUsage
    \/ Return

Spec == Init /\ [][Next]_vars

(***************************************************************************)
(* A session: several invocations in a row while the clock runs.  The     *)
(* clock is the wall clock (time.time()): it advances, and it can be set  *)
(* back.  Every envelope built is recorded in ids.                        *)
(***************************************************************************)
SessionInputs ==
    ({DefaultArgs, [DefaultArgs EXCEPT !.n = 0]} \X {OkResp, TransportResp})

\* one tool call of the session, its envelope recorded
SessionCall ==
    /\ op = "none"
    /\ Len(ids) < MaxCalls
    /\ \E x \in SessionInputs :
           \/ Invoke("generate_uuids", x[1], generate_uuids(x[1], api_key, x[2]))
           \/ Invoke("get_usage", x[1], get_usage(x[1], api_key, x[2]))
    /\ ids' = IF reqId' # -1 THEN Append(ids, reqId') ELSE ids

\* time passes
Tick ==
    /\ clock < MaxClock
    /\ clock' = clock + 1
    /\ UNCHANGED <<op, args, api_key, err, rpcCalled, netCalls, params, resp, out, reqId, ids>>

\* the system clock is set back (NTP step, manual change)
ClockSetBack ==
    /\ \E t \in 0..(clock - 1) : clock' = t
    /\ UNCHANGED <<op, args, api_key, err, rpcCalled, netCalls, params, resp, out, reqId, ids>>

NextSession ==
    \/ SessionCall
    \/ Return
    \/ Tick
    \/ ClockSetBack

SpecSession == Init /\ [][NextSession]_vars

(***************************************************************************)
(* Properties.                                                             *)
(***************************************************************************)
Tools == {"generate_integers", "generate_integer_sequences", "generate_decimal_fractions",
          "generate_gaussians", "generate_strings", "generate_uuids", "generate_blobs"}

\* the invocation ended with an exception raised before any POST
RejectedBeforeCall == err # NoErr /\ ~rpcCalled /\ netCalls = 0 /\ resp = NoResp

\* a randomization spec as the interface documents it
IsDateShape(cs) ==
    /\ Len(cs) = 10
    /\ \A i \in {1, 2, 3, 4, 6, 7, 9, 10} : cs[i] = "d"
    /\ cs[5] = "-"
    /\ cs[8] = "-"

PgrSpecOK(p) ==
    \/ p.kind = "none"
    \/ p.kind = "dict" /\ p.hasDate /\ ~p.hasId /\ p.date.isStr /\ IsDateShape(p.date.chars)
    \/ p.kind = "dict" /\ p.hasId /\ ~p.hasDate /\ p.id.isStr
       /\ Len(p.id.chars) >= 1 /\ Len(p.id.chars) <= 64

PgrRejects(a) == _validate_pregenerated_randomization(a.pgr).err # NoErr

\* some validation step of the tool raises on arguments a
SequencesStepRejects(a) ==
    LET n == a.n
        len == _ensure_scalar_or_list("length", a.length, n,
                   IntRangeValidator(1, 10000),
                   IntRangeValidator(1, 10000))
        mn == _ensure_scalar_or_list("min", a.min, n,
                   IntRangeValidator(-1000000000, 1000000000),
                   IntRangeValidator(-1000000000, 1000000000))
        mx == _ensure_scalar_or_list("max", a.max, n,
                   IntRangeValidator(-1000000000, 1000000000),
                   IntRangeValidator(-1000000000, 1000000000))
    IN  \/ _validate_int_range(n, "n", 1, 1000) # NoErr
        \/ len.err # NoErr
        \/ (IF a.length.isList THEN _validate_lengths_total(a.length.l) # NoErr
            ELSE ~(1 <= n * a.length.s.v /\ n * a.length.s.v <= 10000))
        \/ mn.err # NoErr
        \/ mx.err # NoErr
        \/ \E i \in 1..n : _as_list(a.min, n)[i].v > _as_list(a.max, n)[i].v
        \/ _ensure_scalar_or_list("replacement", a.replacement, n,
                                  BoolValidator, BoolValidator).err # NoErr
        \/ _ensure_scalar_or_list("base", a.base, n, BaseValidator, BaseValidator).err # NoErr
        \/ PgrRejects(a)
        \/ _validate_no_replacement_feasible(~a.length.isList, a.length, a.min, a.max,
                                             a.replacement, n) # NoErr

StepRejects(o, a) ==
    CASE o = "generate_integers" ->
            \/ ~(1 <= a.n /\ a.n <= 10000)
            \/ ~(-1000000000 <= a.min.s.v /\ a.min.s.v <= 1000000000)
            \/ ~(-1000000000 <= a.max.s.v /\ a.max.s.v <= 1000000000)
            \/ a.min.s.v > a.max.s.v
            \/ a.base.s.v \notin {2, 8, 10, 16}
            \/ PgrRejects(a)
      [] o = "generate_integer_sequences" -> SequencesStepRejects(a)
      [] o = "generate_decimal_fractions" ->
            \/ _validate_int_range(a.n, "n", 1, 10000) # NoErr
            \/ _validate_int_range(a.decimalPlaces, "decimalPlaces", 1, 14) # NoErr
            \/ _validate_bool(a.replacement.s, "replacement") # NoErr
            \/ PgrRejects(a)
      [] o = "generate_gaussians" ->
            \/ _validate_int_range(a.n, "n", 1, 10000) # NoErr
            \/ ~(-1000000 <= a.mean /\ a.mean <= 1000000)
            \/ ~(-1000000 <= a.standardDeviation /\ a.standardDeviation <= 1000000)
            \/ _validate_int_range(a.significantDigits, "significantDigits", 2, 14) # NoErr
            \/ PgrRejects(a)
      [] o = "generate_strings" ->
            \/ _validate_int_range(a.n, "n", 1, 10000) # NoErr
            \/ _validate_int_range(a.length.s.v, "length", 1, 32) # NoErr
            \/ ~a.characters.isStr
            \/ ~(1 <= Len(a.characters.chars) /\ Len(a.characters.chars) <= 128)
            \/ _validate_bool(a.replacement.s, "replacement") # NoErr
            \/ PgrRejects(a)
      [] o = "generate_uuids" ->
            \/ _validate_int_range(a.n, "n", 1, 1000) # NoErr
            \/ PgrRejects(a)
      [] o = "generate_blobs" ->
            \/ _validate_int_range(a.n, "n", 1, 100) # NoErr
            \/ _validate_int_range(a.size, "size", 1, 1048576) # NoErr
            \/ a.size % 8 # 0
            \/ a.n * a.size > 1048576
            \/ a.format \notin {"base64", "hex"}
            \/ PgrRejects(a)
      [] OTHER -> FALSE

\* C1: whenever a validation step of the invoked tool rejects the arguments,
\* the invocation ends with an error and no network call was made in it.
C1_FailFast ==
    (op \in Tools /\ StepRejects(op, args)) => (err # NoErr /\ netCalls = 0 /\ resp = NoResp)

\* a rejected randomization spec stopped a tool whose other arguments are fine
C1_Witness ==
    /\ op = "generate_uuids"
    /\ args.n = 1
    /\ args.pgr.kind = "dict" /\ args.pgr.hasDate /\ args.pgr.hasId
    /\ api_key
    /\ err = ValueError("pgr-both")
    /\ netCalls = 0

\* C4: the randomization-spec validator accepts exactly None, a date-only
\* object with a YYYY-MM-DD string, or an id-only object with a string of
\* 1..64 characters; every tool runs it before the network call.
C4_RandomizationSpec ==
    op \in Tools =>
        /\ ~PgrRejects(args) <=> PgrSpecOK(args.pgr)
        /\ rpcCalled => PgrSpecOK(args.pgr)
        /\ ~PgrSpecOK(args.pgr) => RejectedBeforeCall

\* an id of 64 characters was accepted and the call was made
C4_Witness ==
    /\ op = "generate_blobs"
    /\ args.pgr.hasId /\ ~args.pgr.hasDate /\ Len(args.pgr.id.chars) = 64
    /\ rpcCalled /\ netCalls = 1
    /\ params.val.pgr.id = args.pgr.id

\* C10: generate_blobs reaches the network call exactly when n is in
\* [1,100], size is in [1,1048576] and divisible by 8, n*size <= 1048576,
\* format is base64 or hex (and the randomization spec is valid); any other
\* request is rejected before the call.
BlobsOK(a) ==
    /\ a.n >= 1 /\ a.n <= 100
    /\ a.size >= 1 /\ a.size <= 1048576
    /\ 8 * (a.size \div 8) = a.size
    /\ a.n * a.size <= 1048576
    /\ a.format \in {"base64", "hex"}

C10_Blobs ==
    op = "generate_blobs" =>
        /\ rpcCalled <=> (BlobsOK(args) /\ PgrSpecOK(args.pgr))
        /\ ~(BlobsOK(args) /\ PgrSpecOK(args.pgr)) => RejectedBeforeCall

\* three blobs of the largest size that fits were requested and the call made
C10_Witness ==
    /\ op = "generate_blobs"
    /\ args.n = 3 /\ args.size = 349520
    /\ rpcCalled /\ netCalls = 1

\* the per-sequence value of a multiform field, scalars replicated
At(f, i) == IF f.isList THEN f.l[i] ELSE f.s

\* every list-form field has n items
WellShaped(a) ==
    /\ a.n >= 1
    /\ \A f \in {a.length, a.min, a.max, a.replacement, a.base} : f.isList => Len(f.l) = a.n

RECURSIVE TotalOf(_, _)
TotalOf(a, k) == IF k = 0 THEN 0 ELSE At(a.length, k).v + TotalOf(a, k - 1)

\* n*length for a scalar length, the sum of the list otherwise
TotalLength(a) == IF a.length.isList THEN TotalOf(a, Len(a.length.l)) ELSE a.n * a.length.s.v

TotalError == ValueError("lengths-total")

\* C5: generate_integer_sequences makes the call only if the sum of the
\* per-sequence lengths is at most 10000; lengths in range whose sum exceeds
\* it are rejected by the sum check; [6000,5000] is rejected, [5000,5000]
\* passes, and a scalar length and the list [length]*n get the same verdict
\* of the sum check.
C5_LengthsTotal ==
    op = "generate_integer_sequences" =>
        /\ rpcCalled => TotalLength(args) <= 10000
        /\ ( /\ args.n >= 1 /\ args.n <= 1000
             /\ args.length.isList => Len(args.length.l) = args.n
             /\ \A i \in 1..args.n : At(args.length, i).v >= 1 /\ At(args.length, i).v <= 10000
             /\ TotalLength(args) > 10000 )
           => (err = TotalError /\ netCalls = 0)
        /\ (args.n = 2 /\ args.length = ListOf(<<IntV(6000), IntV(5000)>>))
           => (err = TotalError /\ netCalls = 0)
        /\ (args.n = 2 /\ args.length = ListOf(<<IntV(5000), IntV(5000)>>)) => err # TotalError
        /\ ~args.length.isList =>
             LET listed == [args EXCEPT !.length = ListOf(Repeat(args.length.s, args.n))]
             IN  (err = TotalError)
                 <=> (generate_integer_sequences(listed, api_key, OkResp).err = TotalError)

\* two sequences of 5000 items each were requested and the call was made
C5_Witness ==
    /\ op = "generate_integer_sequences"
    /\ args.n = 2 /\ args.length = ListOf(<<IntV(5000), IntV(5000)>>)
    /\ rpcCalled /\ netCalls = 1

ListedCodes == {400, 401, 402, 403, 413, 429, 503, -32600, -32601, -32602, -32603}

IsListed(code) == code.t = "int" /\ code.v \in ListedCodes

\* one clause per present key, in the order advisoryDelay, bitsLeft, requestsLeft
ExpectedClauses(data) ==
    LET present == SelectSeq(<<"advisoryDelay", "bitsLeft", "requestsLeft">>,
                             LAMBDA k : data.isDict /\ k \in data.keys)
    IN  [i \in 1..Len(present) |-> Part(present[i], NoneCode, "", data[present[i]])]

\* the friendly text is right for (code, message, data)
MappedRight(text, code, message, data) ==
    /\ Len(text) >= 1
    /\ IsListed(code) =>
          /\ text[1].k = "hint"
          /\ \A c \in ListedCodes \ {code.v} :
                text[1] # _map_random_org_error(IntV(c), message, data)[1]
    /\ ~IsListed(code) =>
          /\ text[1].k = "fallback"
          /\ text[1].code = code
          /\ text[1].msg = message
    /\ Tail(text) = ExpectedClauses(data)

\* C7: each listed code gets a hint of its own, any other code the fallback
\* carrying the raw code and message, followed by one clause per present
\* key of data in the order advisoryDelay, bitsLeft, requestsLeft.
C7_ErrorMapper ==
    /\ (op \in Tools /\ err.what = "json-rpc-error") =>
          MappedRight(err.text,
                      IF resp.error.hasCode THEN resp.error.code ELSE NoneCode,
                      IF resp.error.hasMessage THEN resp.error.message ELSE "",
                      IF resp.error.hasData THEN resp.error.data ELSE NoData)
    /\ (op \in Tools /\ err.what = "http-status") =>
          MappedRight(err.text, IntV(resp.status), "HTTPStatusError", NoData)

\* code 429 with advisoryDelay = 1500 gave the rate-limit hint and the clause
C7_Witness ==
    /\ op = "generate_integers"
    /\ err.what = "json-rpc-error"
    /\ resp.error.code = IntV(429)
    /\ resp.error.data.isDict /\ resp.error.data.keys = {"advisoryDelay", "requestsLeft"}
    /\ resp.error.data.advisoryDelay = 1500
    /\ Len(err.text) = 3
    /\ err.text[1] = Part("hint", NoneCode, hints[429], 0)
    /\ err.text[2] = Part("advisoryDelay", NoneCode, "", 1500)

\* the base values of a request
BaseValues(o, a) ==
    IF a.base.isList /\ o = "generate_integer_sequences"
    THEN {a.base.l[i] : i \in 1..Len(a.base.l)} ELSE {a.base.s}

BaseErrors == {ValueError("base-base"), ValueError("base[i]-base")}

\* C8: generate_integers and generate_integer_sequences reject a request
\* holding a base value outside {2, 8, 10, 16}, and reject a base value
\* (scalar or list item) only if it is outside it.
C8_Base ==
    op \in {"generate_integers", "generate_integer_sequences"} =>
        /\ (\E b \in BaseValues(op, args) : b.v \notin {2, 8, 10, 16}) => RejectedBeforeCall
        /\ err \in BaseErrors => \E b \in BaseValues(op, args) : b.v \notin {2, 8, 10, 16}
        /\ ( /\ \/ args = [DefaultArgs EXCEPT !.n = args.n, !.base = args.base]
                \/ args = [ValidIntegers EXCEPT !.base = args.base,
                                                !.replacement = args.replacement]
             /\ WellShaped(args) /\ args.n <= 1000
             /\ \A b \in BaseValues(op, args) : b.v \in {2, 8, 10, 16} )
           => rpcCalled

\* per-sequence bases 16 and 2 were accepted
C8_Witness ==
    /\ op = "generate_integer_sequences"
    /\ args.base = ListOf(<<IntV(16), IntV(2)>>)
    /\ rpcCalled /\ netCalls = 1
    /\ params.val.base = args.base

PayloadKey(o) ==
    CASE o = "generate_integers" -> "values"
      [] o = "generate_integer_sequences" -> "sequences"
      [] o = "generate_decimal_fractions" -> "fractions"
      [] o = "generate_gaussians" -> "values"
      [] o = "generate_strings" -> "strings"
      [] o = "generate_uuids" -> "uuids"
      [] o = "generate_blobs" -> "blobs"

\* the validated randomization spec: its one documented member
NormalPgr(p) == IF p.kind = "none" THEN PgrNone ELSE [p EXCEPT !.other = FALSE]

\* C9: a tool that returns hands back the result's random.data as its
\* payload, the result's four quota fields, and the validated inputs as
\* the echoed parameters.
C9_Reshape ==
    (op \in Tools /\ err = NoErr) =>
        /\ rpcCalled /\ netCalls = 1
        /\ resp.kind = "json" /\ resp.hasResult
        /\ out.payloadKey = PayloadKey(op)
        /\ out.payload = resp.result.D
        /\ out.bitsUsed = resp.result.bitsUsed
        /\ out.bitsLeft = resp.result.bitsLeft
        /\ out.requestsLeft = resp.result.requestsLeft
        /\ out.advisoryDelay = resp.result.advisoryDelay
        /\ \A k \in out.keys \ {"pregeneratedRandomization"} : out.echo[k] = args[k]
        /\ "pregeneratedRandomization" \in out.keys
        /\ out.echo.pgr = NormalPgr(args.pgr)

\* generate_integers(n=5, min=1, max=6) against the documented stub result
C9_Witness ==
    /\ op = "generate_integers"
    /\ args = ValidIntegers
    /\ resp = OkResp
    /\ err = NoErr
    /\ out.payload = <<1, 2, 3, 4, 5>>
    /\ out.bitsUsed = 15 /\ out.bitsLeft = 985 /\ out.requestsLeft = 9999
    /\ out.advisoryDelay = 0

\* sequence i is drawn without replacement from fewer values than its length
Infeasible(a, i) ==
    /\ At(a.replacement, i) = PyFalse
    /\ At(a.max, i).v - At(a.min, i).v + 1 < At(a.length, i).v

AllScalar(a) == \A f \in {a.length, a.min, a.max, a.replacement, a.base} : ~f.isList

\* C2: generate_integer_sequences never makes the call for a request with a
\* sequence drawn without replacement whose domain max-min+1 is smaller
\* than its length, in whatever form the fields are given; with min=0,
\* max=4, replacement=false, length 5 passes and length 6 is rejected, and
\* a scalar replacement=true is never rejected as infeasible.
C2_Feasibility ==
    op = "generate_integer_sequences" =>
        /\ (WellShaped(args) /\ \E i \in 1..args.n : Infeasible(args, i)) => netCalls = 0
        /\ ( /\ AllScalar(args) /\ args.n = 1
             /\ args.min.s = IntV(0) /\ args.max.s = IntV(4) /\ args.replacement.s = PyFalse
             /\ args.base.s = IntV(10) /\ args.pgr = PgrNone )
           => /\ args.length.s = IntV(5) => rpcCalled
              /\ args.length.s = IntV(6) => (err = ValueError("infeasible") /\ netCalls = 0)
        /\ (~args.replacement.isList /\ args.replacement.s = PyTrue)
           => err # ValueError("infeasible")

\* the request is valid field by field once scalars are replicated
ExpandedValid(a) ==
    /\ a.n >= 1 /\ a.n <= 1000
    /\ WellShaped(a)
    /\ \A i \in 1..a.n :
          /\ At(a.length, i).t = "int" /\ At(a.length, i).v >= 1 /\ At(a.length, i).v <= 10000
          /\ At(a.min, i).v >= -1000000000 /\ At(a.min, i).v <= 1000000000
          /\ At(a.max, i).v >= -1000000000 /\ At(a.max, i).v <= 1000000000
          /\ At(a.min, i).v <= At(a.max, i).v
          /\ At(a.replacement, i).t = "bool"
          /\ At(a.base, i).v \in {2, 8, 10, 16}
          /\ ~Infeasible(a, i)
    /\ TotalLength(a) <= 10000
    /\ PgrSpecOK(a.pgr)

\* the request with every multiform field in its length-n list form
Expanded(a) ==
    [a EXCEPT !.length = ListOf([i \in 1..a.n |-> At(a.length, i)]),
              !.min = ListOf([i \in 1..a.n |-> At(a.min, i)]),
              !.max = ListOf([i \in 1..a.n |-> At(a.max, i)]),
              !.replacement = ListOf([i \in 1..a.n |-> At(a.replacement, i)]),
              !.base = ListOf([i \in 1..a.n |-> At(a.base, i)])]

\* C3: whatever mix of scalar and list forms the fields of
\* generate_integer_sequences come in, a request whose expanded values are
\* valid is accepted (no error before the call, the RPC is called), and a
\* well-shaped request gets the verdict of its fully expanded form.
C3_MixedForms ==
    op = "generate_integer_sequences" =>
        /\ ExpandedValid(args) => rpcCalled
        /\ (WellShaped(args) /\ args.n <= MaxN + 1) =>
              (rpcCalled <=> generate_integer_sequences(Expanded(args), api_key, resp).rpcCalled)

\* the replacement values of a request
ReplacementValues(a) ==
    IF a.replacement.isList THEN {a.replacement.l[i] : i \in 1..Len(a.replacement.l)}
    ELSE {a.replacement.s}

\* C6: the four tools taking a replacement flag reject, before the call, a
\* replacement value (scalar or list item) that is not a bool.
C6_ReplacementIsBool ==
    ( /\ op \in {"generate_integers", "generate_integer_sequences",
                 "generate_decimal_fractions", "generate_strings"}
      /\ \E r \in ReplacementValues(args) : r.t # "bool" )
    => RejectedBeforeCall

Operations == Tools \cup {"get_usage"}

\* the upstream answered with a failure of some sort
UpstreamFailed ==
    \/ resp.kind \in {"transport", "http", "notjson"}
    \/ resp.kind = "json" /\ resp.errorKind = "object"

\* C11: an invocation makes at most one network call; after a transport
\* failure, an HTTP error status, an unparsable body or a JSON-RPC error
\* object (with or without advisoryDelay) it ends with an error after that
\* one call.
C11_AtMostOneCall ==
    op \in Operations =>
        /\ netCalls <= 1
        /\ UpstreamFailed => (err # NoErr /\ netCalls = 1 /\ out = NoOut)

\* a transport failure ended the invocation after its one call
C11_Witness ==
    /\ op = "get_usage"
    /\ resp = TransportResp
    /\ err = RuntimeError("network", <<>>)
    /\ netCalls = 1

\* C12: every response is classified: the result is returned when there is
\* no error object, an error object fails with the mapper's diagnostic, and
\* a body that is not JSON or is malformed (no result and no error, an
\* error that is no object, a JSON value that is no object) fails with the
\* parse-error diagnostic.
C12_Classification ==
    (op \in Operations /\ netCalls = 1) =>
        /\ (resp.kind = "json" /\ resp.errorKind \in {"absent", "falsy"} /\ resp.hasResult)
              => (err = NoErr /\ out.payload = resp.result.D)
        /\ (resp.kind = "json" /\ resp.errorKind = "object")
              => (err.type = "RuntimeError" /\ err.what = "json-rpc-error")
        /\ ( \/ resp.kind \in {"notjson", "jsonvalue"}
             \/ resp.kind = "json" /\ resp.errorKind = "nonobject"
             \/ resp.kind = "json" /\ resp.errorKind \in {"absent", "falsy"} /\ ~resp.hasResult )
              => err = RuntimeError("parse", <<>>)

\* C13: the envelopes built in one session carry pairwise different
\* identifiers, and a later one is never smaller than an earlier one.
C13_UniqueIds ==
    \A i, j \in 1..Len(ids) : i < j => (ids[i] # ids[j] /\ ids[i] <= ids[j])

\* C14: the error mapper returns a string for every code, message and
\* data of an error object: the RPC client, which hands it the object's
\* members, fails with the mapped diagnostic and with nothing else.
C14_MapperTotal ==
    (op \in Operations /\ netCalls = 1 /\ resp.kind = "json" /\ resp.errorKind = "object") =>
        /\ err.type = "RuntimeError"
        /\ err.what = "json-rpc-error"
        /\ Len(err.text) >= 1

\* the validator a multiform field of generate_integer_sequences is given
FieldValidator(name) ==
    CASE name = "length" -> IntRangeValidator(1, 10000)
      [] name = "min" -> IntRangeValidator(-1000000000, 1000000000)
      [] name = "max" -> IntRangeValidator(-1000000000, 1000000000)
      [] name = "replacement" -> BoolValidator
      [] name = "base" -> BaseValidator

MultiformFields == {"length", "min", "max", "replacement", "base"}

\* C15 for one field value: scalar v and [v]*n get the same verdict and the
\* same per-item values, a list of another length than n is rejected, an
\* accepted value comes back unchanged in its own form.
NormalizedRight(name, value, n) ==
    LET V == FieldValidator(name)
        got == _ensure_scalar_or_list(name, value, n, V, V)
        asList == ListOf(Repeat(value.s, n))
        gotList == _ensure_scalar_or_list(name, asList, n, V, V)
    IN  /\ value.isList =>
              /\ Len(value.l) # n => got.err = ValueError(name \o "-list-length")
              /\ got.err = NoErr => (~got.is_scalar /\ got.value = value /\ got.value.isList)
              /\ got.err = NoErr <=>
                    (Len(value.l) = n /\ \A i \in 1..n : Validate(V, value.l[i], name) = NoErr)
        /\ ~value.isList =>
              /\ got.err = NoErr <=> gotList.err = NoErr
              /\ got.err = NoErr <=> Validate(V, value.s, name) = NoErr
              /\ got.err = NoErr =>
                    /\ got.is_scalar /\ got.value = value
                    /\ ~gotList.is_scalar /\ gotList.value = asList
                    /\ \A i \in 1..n : gotList.value.l[i] = got.value.s

\* C15: the field normaliser treats a scalar and its replicated list alike,
\* rejects lists whose length is not n and hands accepted values back
\* unchanged; generate_integer_sequences sends them on in the form given.
C15_Normalizer ==
    (op = "generate_integer_sequences" /\ args.n >= 1) =>
        /\ \A name \in MultiformFields : NormalizedRight(name, args[name], args.n)
        /\ (\E name \in MultiformFields : args[name].isList /\ Len(args[name].l) # args.n)
              => RejectedBeforeCall
        /\ rpcCalled => \A name \in MultiformFields : params.val[name] = args[name]

\* a request mixing a list-form min with scalar fields went out as given
C15_Witness ==
    /\ op = "generate_integer_sequences"
    /\ args.n = 2
    /\ args.min.isList /\ Len(args.min.l) = 2
    /\ ~args.max.isList /\ ~args.length.isList
    /\ rpcCalled
    /\ params.val.min = args.min /\ params.val.max = args.max

====
